---- MODULE Spec2Model ----
(***************************************************************************)
(* Model of the pos-stripe-backend relay.  The repository holds three      *)
(* deployments of the same express application:                           *)
(*   "index"      src/index.js lines 1-534   (try/catch, validation)       *)
(*   "second"     src/index.js lines 536-752 (manual body parsing)         *)
(*   "serverless" src/unnamed/part_000       (serverless-http wrapper)     *)
(* The relay keeps no state of its own; the state of the model is the      *)
(* process configuration, the request being served (its position, the      *)
(* gateway calls it has issued, its response) and the one remote           *)
(* PaymentIntent whose status the gateway and the reader change.           *)
(*                                                                         *)
(* JavaScript values are modelled by what the handlers do with them:       *)
(* a string field is UNDEFINED, "" or a non-empty string; an amount is a   *)
(* tagged record (undefined, finite number, +-Infinity, NaN, strings).     *)
(* Finite amounts are decimals with three fractional digits, held as an    *)
(* integer number of thousandths.                                          *)
(***************************************************************************)
EXTENDS Integers, Sequences, FiniteSets, TLC

VARIABLES
    variant,        \* which deployment runs
    stripe,         \* TRUE when the gateway client was initialized at startup
    webhookSecret,  \* TRUE when STRIPE_WEBHOOK_SECRET is set
    nodeEnv,        \* process.env.NODE_ENV
    intentStatus,   \* status of the remote PaymentIntent
    pc,             \* "idle", an await of the cancel handler, or "done"
    req,            \* the request being served
    calls,          \* gateway calls issued for it, in order
    answers,        \* the gateway's answers to those calls, in order
    intent,         \* the cancel handler's local: the status it retrieved
    resp,           \* the response written
    dispatched      \* the branch of the webhook's switch that ran

config == <<variant, stripe, webhookSecret, nodeEnv>>
vars == <<variant, stripe, webhookSecret, nodeEnv, intentStatus, pc, req, calls, answers, intent,
          resp, dispatched>>

\* ---------------------------------------------------------------- bounds
\* Largest finite amount of a request, in thousandths of a currency unit.
MaxMilli == 16
\* Longest invoice list the gateway returns in the model.
MaxInvoices == 3

\* ------------------------------------------------------------- JS values
UNDEFINED == "<undefined>"
StrValues == {UNDEFINED, "", "v"}

\* !x for a string-or-undefined field
Falsy(x) == x \in {UNDEFINED, ""}

Variants == {"index", "second", "serverless"}

NodeEnvs == {"development", "production"}

\* ------------------------------------------------------------- responses
NoDetails == "<none>"
ErrorMessage == "error.message"

Resp(s, e, d, b) == [status |-> s, error |-> e, details |-> d, body |-> b, data |-> <<>>]

\* no response has been written
NoResp == Resp(0, "", NoDetails, "<no response>")

Json(b) == Resp(200, "", NoDetails, b)

NotInitializedMsg == "Stripe is not initialized. Please check your configuration."

NotInitialized == Resp(500, NotInitializedMsg, NoDetails, "error")

\* what a handler run produces: the response, the gateway calls issued and
\* the branch of the webhook's event switch that ran ("none" elsewhere)
R(r, c) == [resp |-> r, calls |-> c, branch |-> "none"]

\* ------------------------------------------------------ gateway outcomes
OK == "ok"
\* thrown by the runtime when a property of the undefined client is read;
\* it has no .code and no .statusCode
TypeError == "TypeError"
\* error.code values the handlers distinguish, and one they do not
ErrorCodes == {"resource_missing", "invalid_request_error", "parameter_invalid_integer",
               "terminal_reader_timeout", "terminal_reader_busy",
               "terminal_reader_offline", "api_error"}
Outcomes == {OK} \cup ErrorCodes

\* A rejection that leaves an async handler without try/catch: express 4
\* never answers (status 0); express 5 passes it to the default error
\* handler, which answers with the error's statusCode when it has one in
\* 400..599 and with 500 otherwise.
UnhandledStatuses == {0, 400, 404, 500}

Unhandled(err, u) ==
    LET s == IF err = TypeError /\ u # 0 THEN 500 ELSE u
    IN IF s = 0 THEN NoResp ELSE Resp(s, "<default error page>", NoDetails, "html")

\* ---------------------------------------------------------- gateway calls
NoNum == [t |-> "none", v |-> 0]

Call(op) == [op |-> op, amount |-> NoNum, currency |-> "", customer |-> "", capture |-> ""]

IntentCall(amount, currency, customer, capture) ==
    [op |-> "paymentIntents.create", amount |-> amount, currency |-> currency,
     customer |-> customer, capture |-> capture]

\* ------------------------------------------------- error middleware
MalformedJson == "<malformed JSON>"

\* the global error handler of the index deployment: the error's message is
\* sent in development only
GlobalErrorHandler ==
    Resp(500, "Internal server error",
         IF nodeEnv = "development" THEN ErrorMessage ELSE "Something went wrong",
         "error")

\* ------------------------------------------ POST /api/connection-token
ConnectionTokenIndex(o) ==
    IF ~stripe THEN R(NotInitialized, <<>>)
    ELSE IF o = OK THEN R(Json("secret"), <<Call("terminal.connectionTokens.create")>>)
    ELSE R(Resp(500, "Failed to create connection token", ErrorMessage, "error"),
           <<Call("terminal.connectionTokens.create")>>)

\* the shape shared by the handlers of the two other deployments that make
\* one gateway call with neither an initialization check nor a try/catch
Forward(op, o, u, b) ==
    IF ~stripe THEN R(Unhandled(TypeError, u), <<>>)
    ELSE IF o = OK THEN R(Json(b), <<Call(op)>>)
    ELSE R(Unhandled(o, u), <<Call(op)>>)

ConnectionTokenLegacy(o, u) == Forward("terminal.connectionTokens.create", o, u, "secret")

\* -------------------------------------------- POST /api/register-reader
RegisterReaderCatch(err) ==
    IF err = "resource_missing" THEN Resp(404, ErrorMessage, NoDetails, "error")
    ELSE IF err = "invalid_request_error" THEN Resp(400, ErrorMessage, NoDetails, "error")
    ELSE Resp(500, "Failed to register reader", ErrorMessage, "error")

RegisterReaderIndex(body, o) ==
    IF ~stripe THEN R(NotInitialized, <<>>)
    ELSE IF Falsy(body.registration_code)
    THEN R(Resp(400, "Registration code is required", NoDetails, "error"), <<>>)
    ELSE IF Falsy(body.location_id)
    THEN R(Resp(400, "Location ID is required", NoDetails, "error"), <<>>)
    ELSE IF o = OK THEN R(Json("reader"), <<Call("terminal.readers.create")>>)
    ELSE R(RegisterReaderCatch(o), <<Call("terminal.readers.create")>>)

RegisterReaderLegacy(body, o, u) == Forward("terminal.readers.create", o, u, "reader")

\* -------------------------------------------- POST /api/create-location
LocationFields == {"label", "line1", "city", "state", "country", "postal_code"}
LocationBodies == [LocationFields -> StrValues]

\* the check with its last operand forgotten
MissingAddressFieldButPostalCode(body) ==
    \/ Falsy(body["label"])
    \/ Falsy(body["line1"])
    \/ Falsy(body["city"])
    \/ Falsy(body["state"])
    \/ Falsy(body["country"])

\* !label || !line1 || !city || !state || !country || !postal_code
MissingAddressField(body) ==
    \/ Falsy(body["label"])
    \/ Falsy(body["line1"])
    \/ Falsy(body["city"])
    \/ Falsy(body["state"])
    \/ Falsy(body["country"])
    \/ Falsy(body["postal_code"])

CreateLocationCatch(err) ==
    IF err = "invalid_request_error"
    THEN Resp(400, "Invalid address information provided", NoDetails, "error")
    ELSE Resp(500, "Failed to create location", ErrorMessage, "error")

CreateLocationIndex(body, o) ==
    IF ~stripe THEN R(NotInitialized, <<>>)
    ELSE IF MissingAddressField(body)
    THEN R(Resp(400, "Missing required address fields", NoDetails, "error"), <<>>)
    ELSE IF o = OK THEN R(Json("location"), <<Call("terminal.locations.create")>>)
    ELSE R(CreateLocationCatch(o), <<Call("terminal.locations.create")>>)

CreateLocationLegacy(body, o, u) ==
    IF MissingAddressField(body)
    THEN R(Resp(400, "Missing required address fields", NoDetails, "error"), <<>>)
    ELSE Forward("terminal.locations.create", o, u, "location")

\* --------------------------------------------------- GET /api/products
ProductsCalls(o1) ==
    IF o1 = OK THEN <<Call("products.list"), Call("prices.list")>>
    ELSE <<Call("products.list")>>

ProductsIndex(o1, o2) ==
    IF ~stripe THEN R(NotInitialized, <<>>)
    ELSE IF o1 = OK /\ o2 = OK THEN R(Json("productMap"), ProductsCalls(o1))
    ELSE R(Resp(500, "Failed to fetch products", ErrorMessage, "error"), ProductsCalls(o1))

ProductsLegacy(o1, o2, u) ==
    IF ~stripe THEN R(Unhandled(TypeError, u), <<>>)
    ELSE IF o1 = OK /\ o2 = OK THEN R(Json("productMap"), ProductsCalls(o1))
    ELSE R(Unhandled(IF o1 = OK THEN o2 ELSE o1, u), ProductsCalls(o1))

\* -------------------------------------- POST /api/create-payment-intent
\* amounts as JavaScript values; v is in thousandths for finite numbers
Num(k) == [t |-> "number", v |-> k]
NaN == [t |-> "NaN", v |-> 0]
PosInfinity == [t |-> "Infinity", v |-> 0]
NegInfinity == [t |-> "-Infinity", v |-> 0]
UndefinedAmount == [t |-> "undefined", v |-> 0]
\* a string that reads as the finite decimal k/1000
NumericString(k) == [t |-> "numeric string", v |-> k]
\* a non-empty string that is no number, such as "abc"
OtherString == [t |-> "non-numeric string", v |-> 0]
EmptyString == [t |-> "empty string", v |-> 0]
\* an integer number of minor units, after Math.round
Cents(c) == [t |-> "cents", v |-> c]

\* what a JSON or url-encoded body can carry as amount (1e999 parses to
\* Infinity; NaN itself cannot be sent)
Amounts == {UndefinedAmount, PosInfinity, NegInfinity, OtherString, EmptyString}
           \cup {Num(k) : k \in (0 - MaxMilli)..MaxMilli}
           \cup {NumericString(k) : k \in (0 - MaxMilli)..MaxMilli}

\* Number(amount), also the conversion applied by <= and *
ToNumber(a) ==
    CASE a.t = "undefined" -> NaN
      [] a.t = "numeric string" -> Num(a.v)
      [] a.t = "non-numeric string" -> NaN
      [] a.t = "empty string" -> Num(0)
      [] OTHER -> a

\* !amount
FalsyAmount(a) ==
    \/ a.t \in {"undefined", "NaN", "empty string"}
    \/ a.t = "number" /\ a.v = 0

\* amount <= 0 (false when either side is NaN)
LessOrEqualZero(a) ==
    LET n == ToNumber(a)
    IN \/ n.t = "-Infinity"
       \/ n.t = "number" /\ n.v <= 0

\* Number.isFinite(n)
IsFinite(n) == n.t = "number"

\* Math.floor in the place of Math.round
MathFloorTimes100(a) ==
    LET n == ToNumber(a)
    IN IF n.t = "number" THEN Cents(n.v \div 10) ELSE n

\* Math.round(amount * 100): the nearest integer, a tie going up.  For the
\* amounts of the model (at most a few hundredths) the double product
\* amount * 100 rounds as the exact decimal product does.
MathRoundTimes100(a) ==
    LET n == ToNumber(a)
    IN IF n.t = "number" THEN Cents((n.v + 5) \div 10) ELSE n

Metadatas == {[present |-> FALSE, name |-> UNDEFINED, email |-> UNDEFINED]}
             \cup {[present |-> TRUE, name |-> n, email |-> e] : n \in StrValues, e \in StrValues}

IntentBodies == [amount : Amounts, metadata : Metadatas]

CreatePaymentIntentCatch(err) ==
    IF err = "parameter_invalid_integer"
    THEN Resp(400, "Invalid amount provided", NoDetails, "error")
    ELSE Resp(500, "Failed to create payment intent", ErrorMessage, "error")

\* const { name, email } = metadata; if (!name || !email)
NameOrEmailMissing(metadata) == Falsy(metadata.name) \/ Falsy(metadata.email)

\* if (!amount || amount <= 0)
AmountRejectedIndex(amount) == FalsyAmount(amount) \/ LessOrEqualZero(amount)

CreatePaymentIntentIndex(body, o1, o2) ==
    LET cents == MathRoundTimes100(body.amount)
        create == IntentCall(cents, "usd", "customer.id", "")
    IN IF ~stripe THEN R(NotInitialized, <<>>)
       ELSE IF ~body.metadata.present THEN R(CreatePaymentIntentCatch(TypeError), <<>>)
       ELSE IF NameOrEmailMissing(body.metadata)
       THEN R(Resp(400, "Customer email and name is required", NoDetails, "error"), <<>>)
       ELSE IF AmountRejectedIndex(body.amount)
       THEN R(Resp(400, "Valid amount is required (must be greater than 0)", NoDetails, "error"), <<>>)
       ELSE IF o1 # OK THEN R(CreatePaymentIntentCatch(o1), <<Call("customers.create")>>)
       ELSE IF o2 # OK THEN R(CreatePaymentIntentCatch(o2), <<Call("customers.create"), create>>)
       ELSE R(Json("paymentIntentId, clientSecret"), <<Call("customers.create"), create>>)

\* if (!Number.isFinite(parsedAmount) || parsedAmount <= 0)
AmountRejectedLegacy(amount) ==
    ~IsFinite(ToNumber(amount)) \/ LessOrEqualZero(ToNumber(amount))

CreatePaymentIntentLegacy(body, o2) ==
    LET cents == MathRoundTimes100(body.amount)
        create == IntentCall(cents, "usd", "", IF variant = "second" THEN "manual" ELSE "")
    IN IF AmountRejectedLegacy(body.amount)
       THEN R(Resp(400, "Invalid amount provided.", NoDetails, "error"), <<>>)
       ELSE IF ~stripe
       THEN R(Resp(500, "Failed to create payment intent.", NoDetails, "error"), <<>>)
       ELSE IF o2 # OK
       THEN R(Resp(500, "Failed to create payment intent.", NoDetails, "error"), <<create>>)
       ELSE R(Json("paymentIntentId, clientSecret"), <<create>>)

\* --------------------------------------------- POST /api/process-payment
IdBodies == [readerId : StrValues, paymentIntentId : StrValues]

ProcessPaymentCatch(err) ==
    IF err = "resource_missing"
    THEN Resp(404, "Reader or payment intent not found", NoDetails, "error")
    ELSE IF err = "terminal_reader_timeout"
    THEN Resp(409, "Reader connection timeout please check the reader connection", NoDetails, "error")
    ELSE IF err = "terminal_reader_busy"
    THEN Resp(409, "Reader is currently busy with another operation", NoDetails, "error")
    ELSE IF err = "terminal_reader_offline"
    THEN Resp(503, "Reader is offline. Please check the connection.", NoDetails, "error")
    ELSE Resp(500, "Failed to process payment", ErrorMessage, "error")

ProcessPaymentIndex(body, o) ==
    IF ~stripe THEN R(NotInitialized, <<>>)
    ELSE IF Falsy(body.readerId)
    THEN R(Resp(400, "Reader is required please ensure reader is connected", NoDetails, "error"), <<>>)
    ELSE IF Falsy(body.paymentIntentId)
    THEN R(Resp(400, "Payment Intent ID is required", NoDetails, "error"), <<>>)
    ELSE IF o = OK THEN R(Json("reader"), <<Call("terminal.readers.processPaymentIntent")>>)
    ELSE R(ProcessPaymentCatch(o), <<Call("terminal.readers.processPaymentIntent")>>)

ProcessPaymentLegacy(body, o) ==
    IF ~stripe THEN R(Resp(500, "Failed to process payment", NoDetails, "error"), <<>>)
    ELSE IF o = OK THEN R(Json("reader"), <<Call("terminal.readers.processPaymentIntent")>>)
    ELSE R(Resp(500, "Failed to process payment", NoDetails, "error"),
           <<Call("terminal.readers.processPaymentIntent")>>)

\* -------------------------------------------- POST /api/simulate-payment
SimulatePaymentCatch(err) ==
    IF err = "resource_missing" THEN Resp(404, "Reader not found", NoDetails, "error")
    ELSE Resp(500, "Failed to simulate payment", ErrorMessage, "error")

SimulatePaymentIndex(body, o) ==
    IF ~stripe THEN R(NotInitialized, <<>>)
    ELSE IF Falsy(body.reader_id)
    THEN R(Resp(400, "Reader ID is required", NoDetails, "error"), <<>>)
    ELSE IF o = OK
    THEN R(Json("reader"), <<Call("testHelpers.terminal.readers.presentPaymentMethod")>>)
    ELSE R(SimulatePaymentCatch(o), <<Call("testHelpers.terminal.readers.presentPaymentMethod")>>)

SimulatePaymentLegacy(body, o, u) ==
    Forward("testHelpers.terminal.readers.presentPaymentMethod", o, u, "reader")

\* --------------------------------------------------- GET /api/customers
CustomersIndex(o) ==
    IF ~stripe THEN R(NotInitialized, <<>>)
    ELSE IF o = OK THEN R(Json("customers.data"), <<Call("customers.list")>>)
    ELSE R(Resp(500, "Failed to fetch customers", ErrorMessage, "error"), <<Call("customers.list")>>)

CustomersLegacy(o, u) == Forward("customers.list", o, u, "customers.data")

\* ------------------------------------------------------- POST /webhook
EventTypes == {"payment_intent.succeeded", "payment_intent.payment_failed", "charge.refunded"}

\* contentType: the request's Content-Type; signature: whether the
\* stripe-signature header is a valid signature of the raw body under the
\* signing secret, a tampered one, or absent; type: the event's type
WebhookRequests == [contentType : {"application/json", "text/plain"},
                    signature : {"valid", "tampered", UNDEFINED},
                    type : EventTypes]

\* req.body as the webhook handler finds it.  app.use(express.json()) is
\* mounted before the route: a JSON body is already parsed (req._body is
\* set) when the route's express.raw({type: "application/json"}) runs, so
\* express.raw leaves it alone; any other content type matches neither
\* parser and req.body stays {}.  The handler never sees the raw Buffer.
WebhookPayload(w) ==
    IF w.contentType = "application/json" THEN "parsed object" ELSE "empty object"

\* stripe.webhooks.constructEvent(payload, sig, secret) returns the event
\* when sig signs the raw bytes it is given; it throws otherwise
ConstructEventPasses(payload, sig) == payload = "raw buffer" /\ sig = "valid"

\* switch (event.type)
WebhookSwitch(type) ==
    IF type = "payment_intent.succeeded" THEN "PaymentIntent was successful!"
    ELSE IF type = "payment_intent.payment_failed" THEN "PaymentIntent failed."
    ELSE "Unhandled event type"

WebhookIndex(w) ==
    IF ~webhookSecret
    THEN R(Resp(500, "Webhook secret not configured", NoDetails, "error"), <<>>)
    ELSE IF ~stripe \/ ~ConstructEventPasses(WebhookPayload(w), w.signature)
    THEN R(Resp(400, "Webhook Error: error.message", NoDetails, "error"), <<>>)
    ELSE [resp |-> Json("received"), calls |-> <<>>, branch |-> WebhookSwitch(w.type)]

\* ---------------------------------------------------- GET /api/invoices
InvoiceStatuses == {"open", "draft", "uncollectible", "paid", "void", "deleted"}

\* the lists stripe.invoices.list can resolve to; ids are the positions
InvoiceLists ==
    UNION {{[i \in 1..n |-> [id |-> i, status |-> f[i]]] : f \in [1..n -> InvoiceStatuses]}
           : n \in 0..MaxInvoices}

statusOrder == [open |-> 0, draft |-> 1, uncollectible |-> 2, paid |-> 3, void |-> 4]

\* statusOrder[status] || 99
StatusOrderOr99(status) ==
    IF status \notin DOMAIN statusOrder THEN 99
    ELSE IF statusOrder[status] = 0 THEN 99
    ELSE statusOrder[status]

\* the comparator handed to Array.prototype.sort
CompareInvoices(a, b) == StatusOrderOr99(b.status) - StatusOrderOr99(a.status)

\* Array.prototype.sort: stable, ascending by the comparator
RECURSIVE InsertSorted(_, _)
InsertSorted(x, s) ==
    IF s = <<>> THEN <<x>>
    ELSE IF CompareInvoices(Head(s), x) <= 0 THEN <<Head(s)>> \o InsertSorted(x, Tail(s))
    ELSE <<x>> \o s

RECURSIVE ArraySort(_)
ArraySort(s) ==
    IF s = <<>> THEN <<>>
    ELSE InsertSorted(s[Len(s)], ArraySort(SubSeq(s, 1, Len(s) - 1)))

WithData(r, d) == [r EXCEPT !.data = d]

InvoicesIndex(list, o) ==
    IF ~stripe THEN R(NotInitialized, <<>>)
    ELSE IF o = OK
    THEN R(WithData(Json("sortedInvoices"), ArraySort(list)), <<Call("invoices.list")>>)
    ELSE R(Resp(500, "Failed to fetch invoices", ErrorMessage, "error"), <<Call("invoices.list")>>)

InvoicesLegacy(list, o, u) ==
    IF ~stripe THEN R(Unhandled(TypeError, u), <<>>)
    ELSE IF o = OK THEN R(WithData(Json("invoices.data"), list), <<Call("invoices.list")>>)
    ELSE R(Unhandled(o, u), <<Call("invoices.list")>>)

\* ------------------------------------------- POST /api/invoices/:id/pay
\* the invoice stripe.invoices.retrieve resolves to
Invoices == [amount_due : {Cents(0), Cents(MaxMilli)}, currency : {"usd", "eur"}]

PayInvoiceCatch(err) ==
    IF err = "resource_missing" THEN Resp(404, "Invoice not found", NoDetails, "error")
    ELSE IF err = "invalid_request_error"
    THEN Resp(400, "Invalid invoice or customer information", NoDetails, "error")
    ELSE Resp(500, "Failed to process invoice payment", ErrorMessage, "error")

PayInvoiceIndex(invoice, o1, o2, o3) ==
    LET retrieve == Call("invoices.retrieve")
        create == IntentCall(invoice.amount_due, invoice.currency, "invoice.customer", "")
        attach == Call("invoices.attachPayment")
    IN IF ~stripe THEN R(NotInitialized, <<>>)
       ELSE IF o1 # OK THEN R(PayInvoiceCatch(o1), <<retrieve>>)
       ELSE IF o2 # OK THEN R(PayInvoiceCatch(o2), <<retrieve, create>>)
       ELSE IF o3 # OK THEN R(PayInvoiceCatch(o3), <<retrieve, create, attach>>)
       ELSE R(Json("paymentIntentId"), <<retrieve, create, attach>>)

PayInvoiceLegacy(invoice, o1, o2, u) ==
    LET retrieve == Call("invoices.retrieve")
        create == IntentCall(invoice.amount_due, invoice.currency, "invoice.customer", "manual")
    IN IF ~stripe THEN R(Unhandled(TypeError, u), <<>>)
       ELSE IF o1 # OK THEN R(Unhandled(o1, u), <<retrieve>>)
       ELSE IF o2 # OK THEN R(Unhandled(o2, u), <<retrieve, create>>)
       ELSE R(Json("paymentIntentId"), <<retrieve, create>>)

\* ------------------------------------- GET /api/payment-intent-status
IntentStatuses == {"requires_payment_method", "requires_confirmation", "processing",
                   "succeeded", "canceled"}

PaymentIntentStatusIndex(o) ==
    IF ~stripe
    THEN R(Resp(500, "Failed to fetch payment intent status", NoDetails, "error"), <<>>)
    ELSE IF o = OK
    THEN R(WithData(Json("status"), <<intentStatus>>), <<Call("paymentIntents.retrieve")>>)
    ELSE R(Resp(500, "Failed to fetch payment intent status", NoDetails, "error"),
           <<Call("paymentIntents.retrieve")>>)

\* ------------------------------------- POST /api/cancel-payment-intent
\* the catch block of the cancel handler
CancelCatch == Resp(500, ErrorMessage, NoDetails, "error")

\* the check with the status misspelt, as the check below it is
AlreadySucceededMisspelt(status) == status = "succeded"

\* intent.status === "succeeded"
AlreadySucceeded(status) == status = "succeeded"

\* intent.status === "cancelled"
AlreadyCancelled(status) == status = "cancelled"

\* paymentIntents.cancel resolves only for an intent that is neither
\* succeeded nor canceled
CancelAccepted(o) == o = OK => intentStatus \notin {"succeeded", "canceled"}

\* ------------------------------------------------------------ the server
NoBody == "<no body>"
NoIntent == "<none>"
Idle == [endpoint |-> "<none>", body |-> NoBody]

Init ==
    /\ variant \in Variants
    /\ stripe \in BOOLEAN
    /\ webhookSecret \in BOOLEAN
    /\ nodeEnv \in NodeEnvs
    /\ intentStatus \in IntentStatuses
    /\ pc = "idle"
    /\ req = Idle
    /\ calls = <<>>
    /\ answers = <<>>
    /\ intent = NoIntent
    /\ resp = NoResp
    /\ dispatched = "none"

\* one handler run from the request to its response; outs are the gateway's
\* answers to the calls of the run, in order
Serve(endpoint, body, outs, r) ==
    /\ pc = "idle"
    /\ pc' = "done"
    /\ req' = [endpoint |-> endpoint, body |-> body]
    /\ resp' = r.resp
    /\ calls' = r.calls
    /\ answers' = SubSeq(outs, 1, Len(r.calls))
    /\ intent' = NoIntent
    /\ dispatched' = r.branch
    /\ UNCHANGED <<config, intentStatus>>

\* the response has been sent; the relay keeps nothing of the request
Respond ==
    /\ pc = "done"
    /\ pc' = "idle"
    /\ req' = Idle
    /\ resp' = NoResp
    /\ calls' = <<>>
    /\ answers' = <<>>
    /\ intent' = NoIntent
    /\ dispatched' = "none"
    /\ UNCHANGED <<config, intentStatus>>

ConnectionToken ==
    /\ pc = "idle"
    /\ \E o \in Outcomes, u \in UnhandledStatuses :
           Serve("connection-token", NoBody, <<o>>,
                 IF variant = "index" THEN ConnectionTokenIndex(o)
                 ELSE ConnectionTokenLegacy(o, u))

RegisterReader ==
    /\ pc = "idle"
    /\ \E body \in [registration_code : StrValues, location_id : StrValues],
          o \in Outcomes, u \in UnhandledStatuses :
           /\ o = OK => body.registration_code = "v" /\ body.location_id = "v"
           /\ Serve("register-reader", body, <<o>>,
                    IF variant = "index" THEN RegisterReaderIndex(body, o)
                    ELSE RegisterReaderLegacy(body, o, u))

CreateLocation ==
    /\ pc = "idle"
    /\ \E body \in LocationBodies, o \in Outcomes, u \in UnhandledStatuses :
           Serve("create-location", body, <<o>>,
                 IF variant = "index" THEN CreateLocationIndex(body, o)
                 ELSE CreateLocationLegacy(body, o, u))

Products ==
    /\ pc = "idle"
    /\ \E o1 \in Outcomes, o2 \in Outcomes, u \in UnhandledStatuses :
           Serve("products", NoBody, <<o1, o2>>,
                 IF variant = "index" THEN ProductsIndex(o1, o2)
                 ELSE ProductsLegacy(o1, o2, u))

CreatePaymentIntent ==
    /\ pc = "idle"
    /\ \E body \in IntentBodies, o1 \in Outcomes, o2 \in Outcomes :
           \* the gateway creates no intent whose amount is not an integer
           /\ o2 = OK => MathRoundTimes100(body.amount).t = "cents"
           /\ IF variant = "index"
              THEN Serve("create-payment-intent", body, <<o1, o2>>,
                         CreatePaymentIntentIndex(body, o1, o2))
              ELSE Serve("create-payment-intent", body, <<o2>>,
                         CreatePaymentIntentLegacy(body, o2))

ProcessPayment ==
    /\ pc = "idle"
    /\ \E body \in IdBodies, o \in Outcomes :
           \* the gateway processes nothing for an undefined or empty id
           /\ o = OK => body.readerId = "v" /\ body.paymentIntentId = "v"
           /\ Serve("process-payment", body, <<o>>,
                    IF variant = "index" THEN ProcessPaymentIndex(body, o)
                    ELSE ProcessPaymentLegacy(body, o))

SimulatePayment ==
    /\ pc = "idle"
    /\ \E body \in [reader_id : StrValues], o \in Outcomes, u \in UnhandledStatuses :
           /\ o = OK => body.reader_id = "v"
           /\ Serve("simulate-payment", body, <<o>>,
                    IF variant = "index" THEN SimulatePaymentIndex(body, o)
                    ELSE SimulatePaymentLegacy(body, o, u))

\* the route exists in the "index" deployment only
Webhook ==
    /\ pc = "idle"
    /\ \E w \in WebhookRequests :
           /\ variant = "index"
           /\ Serve("webhook", w, <<>>, WebhookIndex(w))

Customers ==
    /\ pc = "idle"
    /\ \E o \in Outcomes, u \in UnhandledStatuses :
           Serve("customers", NoBody, <<o>>,
                 IF variant = "index" THEN CustomersIndex(o) ELSE CustomersLegacy(o, u))

\* body: the list invoices.list resolves to
ListInvoices ==
    /\ pc = "idle"
    /\ \E list \in InvoiceLists, o \in Outcomes, u \in UnhandledStatuses :
           \* invoices.list resolves to a list only when it is called and succeeds
           /\ (~stripe \/ o # OK) => list = <<>>
           /\ Serve("invoices", list, <<o>>,
                    IF variant = "index" THEN InvoicesIndex(list, o)
                    ELSE InvoicesLegacy(list, o, u))

\* body: the invoice the gateway holds under the id of the path
PayInvoice ==
    /\ pc = "idle"
    /\ \E invoice \in Invoices, o1 \in Outcomes, o2 \in Outcomes, o3 \in Outcomes,
          u \in UnhandledStatuses :
           IF variant = "index"
           THEN Serve("invoices/:id/pay", invoice, <<o1, o2, o3>>,
                      PayInvoiceIndex(invoice, o1, o2, o3))
           ELSE Serve("invoices/:id/pay", invoice, <<o1, o2>>,
                      PayInvoiceLegacy(invoice, o1, o2, u))

\* the route exists in the "index" deployment only
PaymentIntentStatus ==
    /\ pc = "idle"
    /\ \E o \in Outcomes :
           /\ variant = "index"
           /\ Serve("payment-intent-status", NoBody, <<o>>, PaymentIntentStatusIndex(o))

\* express.json() rejects a body that is not JSON before any route is matched:
\* the index deployment answers from its global error handler, the
\* serverless one from the framework's default handler with the parser's
\* status 400.  (The second deployment parses by hand and falls back to an
\* empty body, which the handlers above receive as undefined fields.)
MalformedBody ==
    /\ pc = "idle"
    /\ variant \in {"index", "serverless"}
    /\ Serve("express.json", MalformedJson, <<>>,
             R(IF variant = "index" THEN GlobalErrorHandler
               ELSE Unhandled("entity.parse.failed", 400), <<>>))

\* The cancel handler is suspended at each of its three awaits; the remote
\* intent may change while it is.  Up to the first await:
CancelStart ==
    /\ pc = "idle"
    /\ \E body \in IdBodies :
           /\ variant = "index"
           /\ req' = [endpoint |-> "cancel-payment-intent", body |-> body]
           /\ answers' = <<>>
           /\ intent' = NoIntent
           /\ dispatched' = "none"
           /\ IF ~stripe
              THEN pc' = "done" /\ resp' = NotInitialized /\ calls' = <<>>
              ELSE IF Falsy(body.paymentIntentId) \/ Falsy(body.readerId)
              THEN /\ pc' = "done"
                   /\ resp' = Resp(400, "Both paymentIntentId and readerId are required",
                                   NoDetails, "error")
                   /\ calls' = <<>>
              ELSE /\ pc' = "await paymentIntents.retrieve"
                   /\ resp' = NoResp
                   /\ calls' = <<Call("paymentIntents.retrieve")>>
           /\ UNCHANGED <<config, intentStatus>>

\* Step 1 resolves: the status checks, then the call of step 2
CancelRetrieved ==
    \E o \in Outcomes :
        /\ pc = "await paymentIntents.retrieve"
        /\ answers' = Append(answers, o)
        /\ intent' = IF o = OK THEN intentStatus ELSE NoIntent
        /\ IF o # OK
           THEN pc' = "done" /\ resp' = CancelCatch /\ calls' = calls
           ELSE IF AlreadySucceeded(intentStatus)
           THEN /\ pc' = "done"
                /\ resp' = Resp(409, "Payment already succeeded and cannot be canceled",
                                NoDetails, "error")
                /\ calls' = calls
           ELSE IF AlreadyCancelled(intentStatus)
           THEN /\ pc' = "done"
                /\ resp' = Resp(200, "Payment already cancelled", NoDetails, "error")
                /\ calls' = calls
           ELSE /\ pc' = "await terminal.readers.cancelAction"
                /\ resp' = resp
                /\ calls' = Append(calls, Call("terminal.readers.cancelAction"))
        /\ UNCHANGED <<config, intentStatus, req, dispatched>>

\* step 2 with its rejection swallowed: the handler goes on to step 3
CancelActionDoneIgnoringFailure ==
    \E o \in Outcomes :
        /\ pc = "await terminal.readers.cancelAction"
        /\ answers' = Append(answers, o)
        /\ pc' = "await paymentIntents.cancel"
        /\ resp' = resp
        /\ calls' = Append(calls, Call("paymentIntents.cancel"))
        /\ UNCHANGED <<config, intentStatus, req, intent, dispatched>>

\* Step 2 resolves: the call of step 3
CancelActionDone ==
    \E o \in Outcomes :
        /\ pc = "await terminal.readers.cancelAction"
        /\ answers' = Append(answers, o)
        /\ IF o # OK
           THEN pc' = "done" /\ resp' = CancelCatch /\ calls' = calls
           ELSE /\ pc' = "await paymentIntents.cancel"
                /\ resp' = resp
                /\ calls' = Append(calls, Call("paymentIntents.cancel"))
        /\ UNCHANGED <<config, intentStatus, req, intent, dispatched>>

\* Step 3 resolves: the response
CancelIntentDone ==
    \E o \in Outcomes :
        /\ pc = "await paymentIntents.cancel"
        /\ CancelAccepted(o)
        /\ answers' = Append(answers, o)
        /\ pc' = "done"
        /\ resp' = IF o # OK THEN CancelCatch ELSE Json("message, reader, cancelledIntent")
        /\ intentStatus' = IF o = OK THEN "canceled" ELSE intentStatus
        /\ UNCHANGED <<config, req, calls, intent, dispatched>>

\* the reader and the gateway move the remote intent on, whatever the relay
\* is doing
NextIntentStatus ==
    [requires_payment_method |-> "requires_confirmation",
     requires_confirmation |-> "processing",
     processing |-> "succeeded"]

IntentAdvances ==
    /\ intentStatus \in DOMAIN NextIntentStatus
    /\ intentStatus' = NextIntentStatus[intentStatus]
    /\ UNCHANGED <<config, pc, req, calls, answers, intent, resp, dispatched>>

Next ==
    \/ ConnectionToken
    \/ RegisterReader
    \/ CreateLocation
    \/ Products
    \/ CreatePaymentIntent
    \/ ProcessPayment
    \/ SimulatePayment
    \/ Webhook
    \/ Customers
    \/ ListInvoices
    \/ PayInvoice
    \/ PaymentIntentStatus
    \/ MalformedBody
    \/ CancelStart
    \/ CancelRetrieved
    \/ CancelActionDone
    \/ CancelIntentDone
    \/ IntentAdvances
    \/ Respond

Spec == Init /\ [][Next]_vars

\* ================================================================ claims
Done(endpoint) == pc = "done" /\ req.endpoint = endpoint

CancelCallIssued ==
    \E i \in 1..Len(calls) :
        calls[i].op \in {"terminal.readers.cancelAction", "paymentIntents.cancel"}

\* C1: when the gateway client failed to initialize, every request to a
\* gateway-dependent endpoint of the index deployment is answered 500 with
\* the fixed "Stripe is not initialized" message and no gateway call is made.
C1_NotInitializedAlways500 ==
    (variant = "index" /\ ~stripe /\ pc = "done") =>
        /\ resp.status = 500
        /\ resp.error = NotInitializedMsg
        /\ calls = <<>>

\* C2: cancel-payment-intent with both ids and the gateway initialized: once
\* the retrieved intent's status is "succeeded" the request ends with 409 and
\* issues neither readers.cancelAction nor paymentIntents.cancel.
C2_SucceededIsRefused ==
    (req.endpoint = "cancel-payment-intent" /\ intent = "succeeded") =>
        /\ pc = "done"
        /\ resp.status = 409
        /\ ~CancelCallIssued

C2_Witness ==
    /\ Done("cancel-payment-intent")
    /\ stripe
    /\ ~Falsy(req.body.paymentIntentId) /\ ~Falsy(req.body.readerId)
    /\ intent = "succeeded"
    /\ resp.status = 409
    /\ calls = <<Call("paymentIntents.retrieve")>>

\* C3: cancel-payment-intent with both ids and the gateway initialized: once
\* the retrieved intent's status is "canceled" the request ends with 200 and
\* issues neither readers.cancelAction nor paymentIntents.cancel.
C3_CanceledIsIdempotent ==
    (req.endpoint = "cancel-payment-intent" /\ intent = "canceled") =>
        /\ pc = "done"
        /\ resp.status = 200
        /\ ~CancelCallIssued

\* the rank sequence of the specification: open, draft, uncollectible, paid,
\* void, then every other status
SpecRank(status) ==
    CASE status = "open" -> 0
      [] status = "draft" -> 1
      [] status = "uncollectible" -> 2
      [] status = "paid" -> 3
      [] status = "void" -> 4
      [] OTHER -> 5

IsPermutation(s, t) ==
    /\ Len(s) = Len(t)
    /\ \E f \in [1..Len(s) -> 1..Len(s)] :
        /\ \A i, j \in 1..Len(s) : i # j => f[i] # f[j]
        /\ \A i \in 1..Len(s) : s[i] = t[f[i]]

\* C4: list-invoices of the index deployment answers with a permutation of
\* the gateway's list in which no invoice comes before one of a lower rank
\* (open, draft, uncollectible, paid, void, others).
C4_InvoicesInRankOrder ==
    (variant = "index" /\ Done("invoices") /\ resp.status = 200) =>
        /\ IsPermutation(resp.data, req.body)
        /\ \A i \in 1..(Len(resp.data) - 1) :
               SpecRank(resp.data[i].status) <= SpecRank(resp.data[i + 1].status)

\* amounts the claim calls invalid: <= 0, absent, infinite, a string that is
\* no number
AmountInvalid(a) ==
    \/ a.t \in {"undefined", "Infinity", "-Infinity", "NaN", "non-numeric string"}
    \/ a.t = "number" /\ a.v <= 0

NameAndEmailPresent(body) ==
    /\ body.metadata.present
    /\ ~Falsy(body.metadata.name)
    /\ ~Falsy(body.metadata.email)

\* C5: create-payment-intent with the gateway initialized and name and email
\* present: an amount that is <= 0 or no finite number is answered 400 and
\* neither customers.create nor paymentIntents.create is called.
C5_InvalidAmountIs400 ==
    (Done("create-payment-intent") /\ stripe /\ NameAndEmailPresent(req.body)
        /\ AmountInvalid(req.body.amount)) =>
        /\ resp.status = 400
        /\ calls = <<>>

\* C6: create-payment-intent of the index deployment with the gateway
\* initialized: a request without metadata.name or metadata.email, or with
\* no metadata object at all, is answered 400 and creates no customer and
\* no payment intent.
C6_MissingNameOrEmailIs400 ==
    (variant = "index" /\ Done("create-payment-intent") /\ stripe
        /\ (\/ ~req.body.metadata.present
            \/ req.body.metadata.name = UNDEFINED
            \/ req.body.metadata.email = UNDEFINED)) =>
        /\ resp.status = 400
        /\ calls = <<>>

AddressFieldAbsent(body) == \E f \in LocationFields : body[f] = UNDEFINED

AddressFieldAbsentOrEmpty(body) == \E f \in LocationFields : body[f] \in {UNDEFINED, ""}

\* C7 as stated: create-location with the gateway initialized answers 400
\* if and only if one of the six address fields is absent from the request.
C7_Original ==
    (Done("create-location") /\ stripe) =>
        (resp.status = 400 <=> AddressFieldAbsent(req.body))

\* C7: create-location with the gateway initialized answers 400, without a
\* gateway call, whenever one of the six fields is absent or empty; with all
\* six given it answers 400 only when the gateway call fails, and the index
\* deployment then answers 400 exactly for the error code
\* invalid_request_error.
C7_LocationValidation ==
    (Done("create-location") /\ stripe) =>
        /\ AddressFieldAbsentOrEmpty(req.body) => (resp.status = 400 /\ calls = <<>>)
        /\ ~AddressFieldAbsentOrEmpty(req.body) =>
            /\ Len(calls) = 1
            /\ resp.status = 400 => answers[1] # OK
            /\ variant = "index" =>
                (resp.status = 400 <=> answers[1] = "invalid_request_error")

C7_Witness ==
    /\ Done("create-location")
    /\ stripe
    /\ variant = "index"
    /\ ~AddressFieldAbsentOrEmpty(req.body)
    /\ answers = <<"invalid_request_error">>
    /\ resp.status = 400

\* C8: the webhook receiver with the gateway initialized and the signing
\* secret set runs the event switch and answers {received: true} if and only
\* if the request carries a valid signature of its raw body; a request whose
\* signature is not valid is answered 400 and not dispatched.
C8_DispatchIffVerified ==
    (Done("webhook") /\ stripe /\ webhookSecret) =>
        /\ (dispatched # "none" /\ resp.body = "received") <=> req.body.signature = "valid"
        /\ req.body.signature # "valid" => (resp.status = 400 /\ dispatched = "none")
        /\ req.body.signature = "valid" => resp.status = 200

\* the status the specification gives each outcome of process-payment
ProcessPaymentStatus(o) ==
    CASE o = OK -> 200
      [] o = "resource_missing" -> 404
      [] o \in {"terminal_reader_timeout", "terminal_reader_busy"} -> 409
      [] o = "terminal_reader_offline" -> 503
      [] OTHER -> 500

\* C9: process-payment with the gateway initialized answers 400 without a
\* gateway call when readerId or paymentIntentId is missing; otherwise it
\* calls processPaymentIntent once and answers 200 on success, 404 for
\* resource_missing, 409 for reader timeout and reader busy, 503 for reader
\* offline and 500 for every other error.
C9_ProcessPaymentMapping ==
    (Done("process-payment") /\ stripe) =>
        IF Falsy(req.body.readerId) \/ Falsy(req.body.paymentIntentId)
        THEN resp.status = 400 /\ calls = <<>>
        ELSE /\ Len(calls) = 1
             /\ resp.status = ProcessPaymentStatus(answers[1])

\* the same mapping, for the index deployment alone
C9_IndexMapping == variant = "index" => C9_ProcessPaymentMapping

AmountValid(a) == a.t \in {"number", "numeric string"} /\ a.v > 0

\* c is the integer nearest to v / 10, a tie going up
NearestInteger(c, v) == 10 * c - v <= 5 /\ v - 10 * c < 5

CancelSteps ==
    <<Call("paymentIntents.retrieve"), Call("terminal.readers.cancelAction"),
      Call("paymentIntents.cancel")>>

C11_CancelOnlyAfterReaderCancelled ==
    req.endpoint = "cancel-payment-intent" =>
        /\ Len(calls) <= 3
        /\ calls = SubSeq(CancelSteps, 1, Len(calls))
        /\ Len(answers) <= Len(calls)
        /\ Len(calls) = 3 => (Len(answers) >= 2 /\ answers[1] = OK /\ answers[2] = OK)
        /\ (Len(answers) >= 2 /\ answers[2] # OK) =>
               /\ pc = "done"
               /\ resp.status = 500
               /\ Len(calls) = 2
        /\ (pc = "done" /\ resp = Json("message, reader, cancelledIntent")) =>
               answers = <<OK, OK, OK>>

C11_Witness ==
    /\ Done("cancel-payment-intent")
    /\ calls = SubSeq(CancelSteps, 1, 2)
    /\ answers[1] = OK
    /\ answers[2] = "terminal_reader_offline"
    /\ resp.status = 500
    /\ intentStatus = intent

\* C12: create-payment-intent (index.js:173-212 and the second deployment,
\* index.js:639-668): every request that reaches the gateway calls
\* customers.create exactly once, first, and paymentIntents.create only after
\* it resolved, with the new customer's id; a rejected customers.create leaves
\* no intent call; a request rejected by validation makes no gateway call.
CustomerCalls == {i \in 1..Len(calls) : calls[i].op = "customers.create"}

C12_CustomerBeforeIntent ==
    (Done("create-payment-intent") /\ variant \in {"index", "second"}) =>
        /\ calls # <<>> =>
               /\ CustomerCalls = {1}
               /\ \A i \in 1..Len(calls) :
                      calls[i].op = "paymentIntents.create" =>
                          /\ i = 2
                          /\ answers[1] = OK
                          /\ calls[i].customer = "customer.id"
               /\ answers[1] # OK => Len(calls) = 1
        /\ resp.status = 400 /\ Len(answers) = 0 => calls = <<>>

\* the same statement for the handler of index.js:161-224 alone
C12_IndexCustomerBeforeIntent == variant = "index" => C12_CustomerBeforeIntent

\* C13: pay-invoice (index.js:405-452 and part_000:194-204): the calls are a
\* prefix of invoices.retrieve, paymentIntents.create for the invoice's
\* amount_due, currency and customer, invoices.attachPayment, each issued
\* only after the previous one resolved; {paymentIntentId} is answered with
\* 200 only when all three resolved; a failure of a step is answered 404
\* (resource_missing), 400 (invalid_request_error) or 500 and no later step
\* is issued.
PayInvoiceOps == <<"invoices.retrieve", "paymentIntents.create", "invoices.attachPayment">>

C13_PayInvoiceChain ==
    (Done("invoices/:id/pay") /\ variant \in {"index", "serverless"}) =>
        /\ Len(calls) <= 3
        /\ Len(answers) = Len(calls)
        /\ \A i \in 1..Len(calls) :
               /\ calls[i].op = PayInvoiceOps[i]
               /\ i > 1 => answers[i - 1] = OK
               /\ i = 2 => /\ calls[i].amount = req.body.amount_due
                           /\ calls[i].currency = req.body.currency
                           /\ calls[i].customer = "invoice.customer"
        /\ resp.status = 200 =>
               /\ resp.body = "paymentIntentId"
               /\ Len(calls) = 3
               /\ answers = <<OK, OK, OK>>
        /\ \A i \in 1..Len(answers) :
               answers[i] # OK =>
                   /\ Len(calls) = i
                   /\ resp.status = IF answers[i] = "resource_missing" THEN 404
                                    ELSE IF answers[i] = "invalid_request_error" THEN 400
                                    ELSE 500

\* the same statement for the handler of index.js:405-452 alone
C13_IndexPayInvoiceChain == variant = "index" => C13_PayInvoiceChain

\* C14: in the index deployment an error that no handler classifies is
\* answered 500 with a generic message, and the underlying error's message
\* is part of a response in development mode only: with NODE_ENV other than
\* "development" no response carries the gateway's or the runtime's message.
ExposesErrorMessage(r) ==
    \/ r.details = ErrorMessage
    \/ r.error = ErrorMessage
    \/ r.error = "Webhook Error: error.message"

C14_ErrorTextOnlyInDevelopment ==
    (variant = "index" /\ pc = "done") =>
        /\ resp.status = 500 => resp.error # ErrorMessage
        /\ nodeEnv # "development" => ~ExposesErrorMessage(resp)

\* the same statement for the global error handler alone
C14_GlobalHandlerOnly ==
    (variant = "index" /\ Done("express.json")) =>
        /\ resp.status = 500
        /\ resp.error = "Internal server error"
        /\ nodeEnv # "development" => ~ExposesErrorMessage(resp)

\* C15: while the remote intent's status changes concurrently with a cancel
\* request, no step of the cancel handler issues readers.cancelAction or
\* paymentIntents.cancel at a moment when the remote intent's status is
\* "succeeded".
IssuesCancelCall ==
    /\ req'.endpoint = "cancel-payment-intent"
    /\ Len(calls') = Len(calls) + 1
    /\ calls'[Len(calls')].op \in {"terminal.readers.cancelAction", "paymentIntents.cancel"}

C15_NoCancelCallOnSucceeded ==
    [][IssuesCancelCall => intentStatus # "succeeded"]_vars

\* what the check at retrieval does give: no cancel call is issued on a
\* status retrieved as "succeeded", and a cancel call that meets an intent
\* succeeded in the meantime is rejected by the gateway and answered 500
C15_RetrievedStatusOnly ==
    req.endpoint = "cancel-payment-intent" =>
        /\ CancelCallIssued => intent \notin {"succeeded", NoIntent}
        /\ (pc = "done" /\ Len(calls) = 3 /\ intentStatus = "succeeded") =>
               /\ resp = CancelCatch
               /\ answers[3] # OK

====
